---- MODULE Spec2Model ----
(***************************************************************************)
(* Model of the hacknaam advertisement-chain publisher (Naam.Publish and   *)
(* its helpers) and of the demo's hijack publish.                          *)
(*                                                                         *)
(* One Naam instance is modelled.  Its datastore is the mutex-wrapped map  *)
(* datastore created by New: every single Get/Put is atomic, nothing       *)
(* larger is.  Publish is split into one step per datastore or publisher   *)
(* operation; the purely local computations between two such operations    *)
(* are folded into the step that follows them.  Every operation of the     *)
(* datastore.Datastore interface, and every library call whose error the   *)
(* code checks, may return an error.                                       *)
(***************************************************************************)
EXTENDS Integers, Sequences, FiniteSets, TLC

\* Bounds of the model.
MaxCalls == 2      \* number of Publish calls started in one behaviour
MaxTime == 1       \* the wall clock takes the values 0..MaxTime

\* The number of Publish calls of the republishing goroutines.
MaxRaceCalls == 3

\* The goroutines that may call Publish on the instance.
Procs == {1, 2}

None == <<>>
Some(x) == <<x>>

-----------------------------------------------------------------------------
(* Keys and peer identities *)

\* Private keys: the key of the instance's libp2p host, and the key of
\* another peer (the owner of the name the demo hijacks).
PrivKeys == {"skHost", "skOwner"}

GetPublic(sk) == IF sk = "skHost" THEN "pkHost" ELSE "pkOwner"

IDFromPublicKey(pk) == IF pk = "pkHost" THEN "idHost" ELSE "idOwner"

PeerIDs == {IDFromPublicKey(GetPublic(sk)) : sk \in PrivKeys}

\* n.h.ID() and n.h.Peerstore().PrivKey(pid)
hostPrivKey == "skHost"
hostID == IDFromPublicKey(GetPublic(hostPrivKey))

\* peer.ID.String(): the text form of a peer ID.
PeerString(pid) == IF pid = "idHost" THEN "12D3Host" ELSE "12D3Owner"

\* peer.Decode: the peer ID whose text form is s, or an error.  A string is
\* modelled as a sequence of tokens.
PeerDecode(s) ==
    IF \E pid \in PeerIDs : s = <<PeerString(pid)>>
    THEN [err |-> FALSE, pid |-> CHOOSE pid \in PeerIDs : s = <<PeerString(pid)>>]
    ELSE [err |-> TRUE, pid |-> ""]

NamespacePrefix == "/ipns/"

Name(peerID) == <<NamespacePrefix, PeerString(peerID)>>

TrimPrefix(s, prefix) ==
    IF Len(s) > 0 /\ s[1] = prefix THEN Tail(s) ELSE s

\* peerIDFromName without the test for the missing prefix.
peerIDFromNameNoPrefixTest(name) == PeerDecode(TrimPrefix(name, NamespacePrefix))

peerIDFromName(name) ==
    LET spid == TrimPrefix(name, NamespacePrefix)
    IN  IF spid = name THEN [err |-> TRUE, pid |-> ""] ELSE PeerDecode(spid)

\* The names Publish is called with: the instance's own name, another
\* peer's name, a name without the prefix, a prefix followed by text that
\* is no peer ID.
Names == {Name("idHost"), Name("idOwner"), <<"12D3Owner">>, <<NamespacePrefix, "zz">>}

\* The target paths Publish is called with.
Values == {"/ipfs/squirrel", "/ipfs/radChart"}

-----------------------------------------------------------------------------
(* Encodings *)

\* varint.ToUvarint: little-endian base-128 groups, high bit set on all
\* but the last.
RECURSIVE ToUvarint(_)
ToUvarint(n) ==
    IF n < 128 THEN <<n>> ELSE <<(n % 128) + 128>> \o ToUvarint(n \div 128)

\* varint.ReadUvarint
RECURSIVE ReadUvarint(_)
ReadUvarint(buf) ==
    IF Len(buf) = 0 THEN 0
    ELSE IF buf[1] < 128 THEN buf[1]
    ELSE (buf[1] - 128) + 128 * ReadUvarint(Tail(buf))

\* cid.Undef, and the CID a link prototype computes for a node: version 1,
\* sha2-256 of the encoded node.  The digest is modelled by the node it is
\* the digest of (no collisions).
Undef == <<>>
CidOf(node) == <<node>>

\* cid.Cid.Bytes and cid.CidFromBytes
CidBytes(c) == <<1, c>>
\* CidFromBytes that parses nothing.
CidFromBytesFails(b) == [err |-> TRUE, cid |-> Undef]

CidFromBytes(b) ==
    IF Len(b) = 2 /\ b[1] = 1 THEN [err |-> FALSE, cid |-> b[2]]
    ELSE [err |-> TRUE, cid |-> Undef]

\* cidlink.Link{Cid: c} and Link.Binary()
Link(c) == [Cid |-> c]

\* A link binary that keeps the version prefix and drops the digest.
LinkBinaryPrefixOnly(l) == <<1>>

LinkBinary(l) == CidBytes(l.Cid)

\* The dag-json encoding of a node.
Encode(node) == <<"dag-json", node>>

\* multihash.Sum(data, SHA2_256, -1)
MultihashSum(data) == [code |-> "sha2-256", digest |-> data]

\* A signature by sk over data, and its verification against a public key.
SignWith(sk, data) == [signer |-> sk, signed |-> data]
Verify(pk, data, sig) == GetPublic(sig.signer) = pk /\ sig.signed = data

-----------------------------------------------------------------------------
(* Records, entry chunks and advertisements *)

EOLWindow == 24

\* NewRecord producing a record under the key of the other peer.
NewRecordOtherKey(sk, value, seq, eol, ttl) ==
    LET data == [Value |-> value, Sequence |-> seq, Validity |-> eol, TTL |-> ttl]
    IN  [Value |-> value, Sequence |-> seq, Validity |-> eol, TTL |-> ttl,
         PubKey |-> "pkOwner", Signature |-> SignWith("skOwner", data)]

\* ipns.NewRecord(pk, value, seq, eol, ttl, ipns.WithPublicKey(true))
NewRecord(sk, value, seq, eol, ttl) ==
    LET data == [Value |-> value, Sequence |-> seq, Validity |-> eol, TTL |-> ttl]
    IN  [Value |-> value, Sequence |-> seq, Validity |-> eol, TTL |-> ttl,
         PubKey |-> GetPublic(sk), Signature |-> SignWith(sk, data)]

MetadataProtocolID == 768
ContextID == "/ipni/naam"

\* ipnsMetadata: the protocol ID varint followed by the marshalled record.
ipnsMetadata(rec) == [protocol |-> ToUvarint(MetadataProtocolID), record |-> rec]

\* schema.EntryChunk{Entries: []multihash.Multihash{mh}}
EntryChunk(pid) == [Entries |-> <<MultihashSum(pid)>>]

\* The advertisement with the signer's own identity as provider.
SignedAdOwnProvider(prevLink, pid, addrs, entriesLink, metadata, sk) ==
    LET own == PeerString(IDFromPublicKey(GetPublic(sk)))
        body == [PreviousID |-> prevLink, Provider |-> own,
                 Addresses |-> addrs, Entries |-> entriesLink,
                 ContextID |-> ContextID, Metadata |-> metadata]
    IN  [PreviousID |-> prevLink, Provider |-> own,
         Addresses |-> addrs, Entries |-> entriesLink,
         ContextID |-> ContextID, Metadata |-> metadata,
         Signature |-> SignWith(sk, body)]

\* The advertisement Publish assembles and signs with sk.
SignedAd(prevLink, pid, addrs, entriesLink, metadata, sk) ==
    LET body == [PreviousID |-> prevLink, Provider |-> PeerString(pid),
                 Addresses |-> addrs, Entries |-> entriesLink,
                 ContextID |-> ContextID, Metadata |-> metadata]
    IN  [PreviousID |-> prevLink, Provider |-> PeerString(pid),
         Addresses |-> addrs, Entries |-> entriesLink,
         ContextID |-> ContextID, Metadata |-> metadata,
         Signature |-> SignWith(sk, body)]

\* n.adAddrs(): the publisher's addresses as strings.
adAddrs == <<"/ip4/0.0.0.0/tcp/9080/http">>

-----------------------------------------------------------------------------
(* State *)

VARIABLES
    dsHead,      \* value under key headAdCid: None or Some(bytes)
    dsHeight,    \* value under key height: None or Some(bytes)
    dsLs,        \* the "ls" namespace: function from link binary to block bytes
    pubRoot,     \* root served by the dagsync publisher: None or Some(cid)
    announced,   \* CIDs for which announce.Send returned nil
    now,         \* wall clock
    frame,       \* per goroutine: position in Publish, its locals, keys it wrote
    pre,         \* per goroutine: what held when its current call began
    ncalls,      \* Publish calls started
    ncommitted   \* calls whose setHeadAdCid returned nil

vars == <<dsHead, dsHeight, dsLs, pubRoot, announced, now, frame, pre, ncalls, ncommitted>>

IdleFrame ==
    [pc |-> "idle", value |-> "", origName |-> <<>>, head |-> Undef,
     prevLink |-> None, prevHeight |-> 0, seq |-> 0, ipnsRec |-> None,
     hackPID |-> "", entriesLink |-> None, newHead |-> Undef, h |-> 0,
     wrote |-> {}, err |-> ""]

EmptyLs == [k \in {} |-> <<>>]

InCall(p) == frame[p].pc \notin {"idle", "done"}

\* What is recorded when goroutine p begins a call: the number of the call,
\* the calls in progress, the result of the goroutine's previous call, and
\* the contents of the datastore, the publisher's root and the announces.
Snapshot(p) ==
    [id |-> ncalls + 1,
     with |-> {pre[q].id : q \in {r \in Procs : InCall(r)}},
     last |-> [err |-> frame[p].err, newHead |-> frame[p].newHead, seq |-> frame[p].seq,
               origName |-> frame[p].origName, entriesLink |-> frame[p].entriesLink],
     head |-> dsHead, height |-> dsHeight, ls |-> dsLs, root |-> pubRoot,
     announced |-> announced]

Init ==
    /\ dsHead = None
    /\ dsHeight = None
    /\ dsLs = EmptyLs
    /\ pubRoot = None
    /\ announced = {}
    /\ now = 0
    /\ frame = [p \in Procs |-> IdleFrame]
    /\ pre = [p \in Procs |->
                [id |-> 0, with |-> {},
                 last |-> [err |-> "", newHead |-> Undef, seq |-> 0,
                           origName |-> <<>>, entriesLink |-> None],
                 head |-> None, height |-> None, ls |-> EmptyLs, root |-> None,
                 announced |-> {}]]
    /\ ncalls = 0
    /\ ncommitted = 0

\* A Put that never replaces: the value goes under a key made fresh by the
\* number of entries.
LsPutFresh(ls, key, val) ==
    [k \in DOMAIN ls \cup {<<key, Cardinality(DOMAIN ls)>>} |->
        IF k = <<key, Cardinality(DOMAIN ls)>> THEN val ELSE ls[k]]

\* datastore Put under the "ls" namespace
LsPut(ls, key, val) == [k \in DOMAIN ls \cup {key} |-> IF k = key THEN val ELSE ls[k]]

\* Publish returns err from goroutine p.
Return(p, e) == frame' = [frame EXCEPT ![p].pc = "done", ![p].err = e]

-----------------------------------------------------------------------------
(* Chain state store helpers *)

\* getHeadAdCid without the datastore error: a missing key and bytes that
\* do not parse both give cid.Undef.
getHeadAdCid(stored) ==
    IF stored = None THEN Undef
    ELSE IF CidFromBytes(stored[1]).err THEN Undef
    ELSE CidFromBytes(stored[1]).cid

\* previousHeight taking a missing key for height 1.
previousHeightMissingIsOne(stored) ==
    IF stored = None THEN 1 ELSE ReadUvarint(stored[1])

\* previousHeight without the datastore error: a missing key gives 0.
previousHeight(stored) ==
    IF stored = None THEN 0 ELSE ReadUvarint(stored[1])

-----------------------------------------------------------------------------
(* Publish, step by step *)

\* A goroutine that is in no call (it never called, or its last call has
\* returned) calls Publish(ctx, value, origName).  Goroutines are
\* interchangeable: a call is made by the first one that is free.
PublishCall(p) ==
    /\ ~InCall(p)
    /\ \A q \in Procs : q < p => InCall(q)
    /\ ncalls < MaxCalls
    /\ \E value \in Values, origName \in Names :
         frame' = [frame EXCEPT ![p] = [IdleFrame EXCEPT !.pc = "getHeadAdCid",
                                         !.value = value, !.origName = origName]]
    /\ pre' = [pre EXCEPT ![p] = Snapshot(p)]
    /\ ncalls' = ncalls + 1
    /\ UNCHANGED <<dsHead, dsHeight, dsLs, pubRoot, announced, now, ncommitted>>

\* The same, when the caller runs its Publish calls one after another.
PublishCallSeq(p) ==
    /\ \A q \in Procs : ~InCall(q)
    /\ PublishCall(p)

\* A goroutine that republishes one value under the host's own name.
PublishCallRace(p) ==
    /\ ~InCall(p)
    /\ \A q \in Procs : q < p => InCall(q)
    /\ ncalls < MaxRaceCalls
    /\ frame' = [frame EXCEPT ![p] = [IdleFrame EXCEPT !.pc = "getHeadAdCid",
                                        !.value = "/ipfs/squirrel",
                                        !.origName = Name(hostID)]]
    /\ pre' = [pre EXCEPT ![p] = Snapshot(p)]
    /\ ncalls' = ncalls + 1
    /\ UNCHANGED <<dsHead, dsHeight, dsLs, pubRoot, announced, now, ncommitted>>

\* head, err := n.getHeadAdCid(ctx); prevLink
ReadHead(p) ==
    /\ frame[p].pc = "getHeadAdCid"
    /\ \/ Return(p, "getHeadAdCid")
       \/ LET head == getHeadAdCid(dsHead)
          IN  frame' = [frame EXCEPT ![p].pc = "previousHeight",
                                     ![p].head = head,
                                     ![p].prevLink = IF head # Undef THEN Some(Link(head)) ELSE None]
    /\ UNCHANGED <<dsHead, dsHeight, dsLs, pubRoot, announced, now, pre, ncalls, ncommitted>>

\* prevHeight, err := n.previousHeight(ctx); seq := prevHeight + 1
ReadHeight(p) ==
    /\ frame[p].pc = "previousHeight"
    /\ \/ Return(p, "previousHeight")
       \/ LET prevHeight == previousHeight(dsHeight)
          IN  frame' = [frame EXCEPT ![p].pc = "NewRecord",
                                     ![p].prevHeight = prevHeight,
                                     ![p].seq = prevHeight + 1]
    /\ UNCHANGED <<dsHead, dsHeight, dsLs, pubRoot, announced, now, pre, ncalls, ncommitted>>

\* eol, ipns.NewRecord with the host's key, then peerIDFromName(origName)
BuildRecord(p) ==
    /\ frame[p].pc = "NewRecord"
    /\ LET eol == now + EOLWindow
           ttl == 0
           rec == NewRecord(hostPrivKey, frame[p].value, frame[p].seq, eol, ttl)
           dec == peerIDFromName(frame[p].origName)
       IN  \/ Return(p, "NewRecord")
           \/ /\ dec.err
              /\ frame' = [frame EXCEPT ![p].pc = "done", ![p].err = "peerIDFromName",
                                        ![p].ipnsRec = Some(rec)]
           \/ /\ ~dec.err
              /\ frame' = [frame EXCEPT ![p].pc = "StoreEntries",
                                        ![p].ipnsRec = Some(rec),
                                        ![p].hackPID = dec.pid]
    /\ UNCHANGED <<dsHead, dsHeight, dsLs, pubRoot, announced, now, pre, ncalls, ncommitted>>

\* multihash of the claimed peer ID, entry chunk, n.ls.Store of the chunk
\* (one error outcome stands for the three calls that can fail here)
StoreEntries(p) ==
    /\ frame[p].pc = "StoreEntries"
    /\ LET cn == EntryChunk(frame[p].hackPID)
           l == Link(CidOf(Encode(cn)))
       IN  \/ /\ Return(p, "StoreEntries")
              /\ UNCHANGED dsLs
           \/ /\ dsLs' = LsPut(dsLs, LinkBinary(l), Encode(cn))
              /\ frame' = [frame EXCEPT ![p].pc = "StoreAd", ![p].entriesLink = Some(l)]
    /\ UNCHANGED <<dsHead, dsHeight, pubRoot, announced, now, pre, ncalls, ncommitted>>

\* StoreAd whose failed store has already written the block.
StoreAdPartialWrite(p) ==
    /\ frame[p].pc = "StoreAd"
    /\ LET metadata == ipnsMetadata(frame[p].ipnsRec[1])
           ad == SignedAd(frame[p].prevLink, frame[p].hackPID, adAddrs,
                          frame[p].entriesLink[1], metadata, hostPrivKey)
           l == Link(CidOf(Encode(ad)))
       IN  \/ /\ \E e \in {"ipnsMetadata", "ad.Sign"} : Return(p, e)
              /\ UNCHANGED dsLs
           \/ /\ Return(p, "StoreAd")
              /\ dsLs' = LsPut(dsLs, LinkBinary(l), Encode(ad))
           \/ /\ dsLs' = LsPut(dsLs, LinkBinary(l), Encode(ad))
              /\ frame' = [frame EXCEPT ![p].pc = "SetRoot", ![p].newHead = l.Cid]
    /\ UNCHANGED <<dsHead, dsHeight, pubRoot, announced, now, pre, ncalls, ncommitted>>

\* StoreAd with the head written before the advertisement is stored, so
\* that a failed store leaves the new head behind.
StoreAdHeadFirst(p) ==
    /\ frame[p].pc = "StoreAd"
    /\ LET metadata == ipnsMetadata(frame[p].ipnsRec[1])
           ad == SignedAd(frame[p].prevLink, frame[p].hackPID, adAddrs,
                          frame[p].entriesLink[1], metadata, hostPrivKey)
           l == Link(CidOf(Encode(ad)))
       IN  \/ /\ \E e \in {"ipnsMetadata", "ad.Sign", "StoreAd"} : Return(p, e)
              /\ dsHead' = Some(CidBytes(l.Cid))
              /\ UNCHANGED dsLs
           \/ /\ dsLs' = LsPut(dsLs, LinkBinary(l), Encode(ad))
              /\ frame' = [frame EXCEPT ![p].pc = "SetRoot", ![p].newHead = l.Cid]
              /\ UNCHANGED dsHead
    /\ UNCHANGED <<dsHeight, pubRoot, announced, now, pre, ncalls, ncommitted>>

\* ipnsMetadata, the advertisement, ad.Sign(pk), ad.ToNode, n.ls.Store
StoreAd(p) ==
    /\ frame[p].pc = "StoreAd"
    /\ LET metadata == ipnsMetadata(frame[p].ipnsRec[1])
           ad == SignedAd(frame[p].prevLink, frame[p].hackPID, adAddrs,
                          frame[p].entriesLink[1], metadata, hostPrivKey)
           l == Link(CidOf(Encode(ad)))
       IN  \/ /\ \E e \in {"ipnsMetadata", "ad.Sign", "StoreAd"} : Return(p, e)
              /\ UNCHANGED dsLs
           \/ /\ dsLs' = LsPut(dsLs, LinkBinary(l), Encode(ad))
              /\ frame' = [frame EXCEPT ![p].pc = "SetRoot", ![p].newHead = l.Cid]
    /\ UNCHANGED <<dsHead, dsHeight, pubRoot, announced, now, pre, ncalls, ncommitted>>

\* SetRoot with the announce sent here, ahead of setHeadAdCid.
SetRootAnnounces(p) ==
    /\ frame[p].pc = "SetRoot"
    /\ pubRoot' = Some(frame[p].newHead)
    /\ announced' = announced \cup {frame[p].newHead}
    /\ frame' = [frame EXCEPT ![p].pc = "putHead"]
    /\ UNCHANGED <<dsHead, dsHeight, dsLs, now, pre, ncalls, ncommitted>>

\* n.pub.SetRoot(newHead)
SetRoot(p) ==
    /\ frame[p].pc = "SetRoot"
    /\ pubRoot' = Some(frame[p].newHead)
    /\ frame' = [frame EXCEPT ![p].pc = "putHead"]
    /\ UNCHANGED <<dsHead, dsHeight, dsLs, announced, now, pre, ncalls, ncommitted>>

\* setHeadAdCid: n.ds.Put(ctx, headAdCid, head.Bytes())
PutHead(p) ==
    /\ frame[p].pc = "putHead"
    /\ \/ /\ Return(p, "putHead")
          /\ UNCHANGED dsHead
       \/ /\ dsHead' = Some(CidBytes(frame[p].newHead))
          /\ frame' = [frame EXCEPT ![p].pc = "readHeight",
                                    ![p].wrote = @ \cup {"headAdCid"}]
    /\ UNCHANGED <<dsHeight, dsLs, pubRoot, announced, now, pre, ncalls, ncommitted>>

\* setHeadAdCid: h, err := n.previousHeight(ctx)
ReadHeightAgain(p) ==
    /\ frame[p].pc = "readHeight"
    /\ \/ Return(p, "readHeight")
       \/ frame' = [frame EXCEPT ![p].pc = "putHeight", ![p].h = previousHeight(dsHeight)]
    /\ UNCHANGED <<dsHead, dsHeight, dsLs, pubRoot, announced, now, pre, ncalls, ncommitted>>

\* setHeadAdCid: n.ds.Put(ctx, height, varint.ToUvarint(h+1))
PutHeight(p) ==
    /\ frame[p].pc = "putHeight"
    /\ \/ /\ Return(p, "putHeight")
          /\ UNCHANGED <<dsHeight, ncommitted>>
       \/ /\ dsHeight' = Some(ToUvarint(frame[p].h + 1))
          /\ ncommitted' = ncommitted + 1
          /\ frame' = [frame EXCEPT ![p].pc = "Send",
                                    ![p].wrote = @ \cup {"height"}]
    /\ UNCHANGED <<dsHead, dsLs, pubRoot, announced, now, pre, ncalls>>

\* Send undoing the head write when the announce fails.
SendRevertsHead(p) ==
    /\ frame[p].pc = "Send"
    /\ \/ /\ Return(p, "unsuccessful announce")
          /\ dsHead' = pre[p].head
          /\ UNCHANGED announced
       \/ /\ announced' = announced \cup {frame[p].newHead}
          /\ Return(p, "nil")
          /\ UNCHANGED dsHead
    /\ UNCHANGED <<dsHeight, dsLs, pubRoot, now, pre, ncalls, ncommitted>>

\* announce.Send(ctx, newHead, n.pub.Addrs(), n.httpAnnouncer)
Send(p) ==
    /\ frame[p].pc = "Send"
    /\ \/ /\ Return(p, "unsuccessful announce")
          /\ UNCHANGED announced
       \/ /\ announced' = announced \cup {frame[p].newHead}
          /\ Return(p, "nil")
    /\ UNCHANGED <<dsHead, dsHeight, dsLs, pubRoot, now, pre, ncalls, ncommitted>>

\* Time passes.  The clock is read only by BuildRecord, so only the ticks
\* that happen while a call is about to read it are modelled.
Tick ==
    /\ now < MaxTime
    /\ \E p \in Procs : frame[p].pc = "NewRecord"
    /\ now' = now + 1
    /\ UNCHANGED <<dsHead, dsHeight, dsLs, pubRoot, announced, frame, pre, ncalls, ncommitted>>

Step(p) ==
    \/ ReadHead(p)
    \/ ReadHeight(p)
    \/ BuildRecord(p)
    \/ StoreEntries(p)
    \/ StoreAd(p)
    \/ SetRoot(p)
    \/ PutHead(p)
    \/ ReadHeightAgain(p)
    \/ PutHeight(p)
    \/ Send(p)

Next ==
    \/ \E p \in Procs : PublishCall(p)
    \/ \E p \in Procs : Step(p)
    \/ Tick

NextSeq ==
    \/ \E p \in Procs : PublishCallSeq(p)
    \/ \E p \in Procs : Step(p)
    \/ Tick

\* Publish calls from concurrent goroutines.
Spec == Init /\ [][Next]_vars

\* Publish calls made one after another.
SpecSeq == Init /\ [][NextSeq]_vars

NextRace ==
    \/ \E p \in Procs : PublishCallRace(p)
    \/ \E p \in Procs : Step(p)
    \/ Tick

\* Concurrent goroutines republishing the same value under the host's name.
SpecRace == Init /\ [][NextRace]_vars

-----------------------------------------------------------------------------
(* Reading the stores *)

\* The chain state as getHeadAdCid and previousHeight report it.
StoredHead == getHeadAdCid(dsHead)
StoredHeight == previousHeight(dsHeight)

\* StorageReadOpener and decoding: the node stored under CID c.
Load(c) == dsLs[LinkBinary(Link(c))][2]

Stored(c) == LinkBinary(Link(c)) \in DOMAIN dsLs

\* The nodes in the link store, by kind.
StoredNodes == {dsLs[k][2] : k \in DOMAIN dsLs}
StoredAds == {n \in StoredNodes : "Provider" \in DOMAIN n}
StoredChunks == {n \in StoredNodes : "Provider" \notin DOMAIN n}

\* The CID an advertisement's PreviousID names, cid.Undef when it has none.
PreviousOf(c) ==
    IF Load(c).PreviousID = None THEN Undef ELSE Load(c).PreviousID[1].Cid

\* The advertisements met when following PreviousID from c to the root.
RECURSIVE Walk(_)
Walk(c) == IF c = Undef \/ ~Stored(c) THEN <<>> ELSE <<c>> \o Walk(PreviousOf(c))

\* The call of goroutine p got past setHeadAdCid.
Committed(p) ==
    \/ frame[p].pc = "Send"
    \/ frame[p].pc = "done" /\ frame[p].err \in {"nil", "unsuccessful announce"}

Returned(p, e) == frame[p].pc = "done" /\ frame[p].err = e

Quiescent == \A p \in Procs : ~InCall(p)

-----------------------------------------------------------------------------
(* Properties *)

\* C1: when Publish calls run one after another, after the Nth call that
\* commits the stored height is N and the naming record inside the
\* advertisement that call created has sequence N.
C1_MonotonicHeight ==
    \A p \in Procs :
        Committed(p) =>
            /\ StoredHeight = ncommitted
            /\ Stored(frame[p].newHead)
            /\ Load(frame[p].newHead).Metadata.record.Sequence = ncommitted

C1_Witness ==
    \E p \in Procs : Returned(p, "nil") /\ ncommitted = 2 /\ StoredHeight = 2

\* C2: whenever no Publish call is in progress, following PreviousID from
\* the stored head visits exactly height advertisements, none of them twice.
C2_ChainIntegrity ==
    Quiescent =>
        LET w == Walk(StoredHead)
        IN  /\ Len(w) = StoredHeight
            /\ \A i, j \in 1..Len(w) : w[i] = w[j] => i = j

\* C3: when setHeadAdCid fails (head write, height read or height write),
\* Publish returns with the stored head and height as they were before
\* the call.
C3_CommitFailureKeepsState ==
    \A p \in Procs :
        (\E e \in {"putHead", "readHeight", "putHeight"} : Returned(p, e)) =>
            /\ dsHead = pre[p].head
            /\ dsHeight = pre[p].height

\* Two calls were in progress at the same time.
Overlap(p, q) == pre[p].id \in pre[q].with \/ pre[q].id \in pre[p].with

\* C4: two Publish calls that run concurrently and both return nil embedded
\* different sequence numbers, link to different previous heads, left the
\* height two above what the earlier one found, and both their
\* advertisements are on the chain of the stored head.
C4_ConcurrentSerializable ==
    \A p, q \in Procs :
        (p # q /\ Overlap(p, q) /\ Returned(p, "nil") /\ Returned(q, "nil")) =>
            LET first == IF pre[p].id < pre[q].id THEN p ELSE q
                w == Walk(StoredHead)
            IN  /\ frame[p].seq # frame[q].seq
                /\ frame[p].prevLink # frame[q].prevLink
                /\ StoredHeight = previousHeight(pre[first].height) + 2
                /\ \E i \in 1..Len(w) : w[i] = frame[p].newHead
                /\ \E i \in 1..Len(w) : w[i] = frame[q].newHead

\* The errors Publish returns from the steps before setHeadAdCid.
PreCommitErrors ==
    {"getHeadAdCid", "previousHeight", "NewRecord", "peerIDFromName",
     "StoreEntries", "ipnsMetadata", "ad.Sign", "StoreAd"}

\* C5: when Publish returns an error of a step before the commit, the stored
\* head and height are those from before the call and the call announced
\* nothing.
C5_PreCommitErrorKeepsState ==
    \A p \in Procs :
        (\E e \in PreCommitErrors : Returned(p, e)) =>
            /\ dsHead = pre[p].head
            /\ dsHeight = pre[p].height
            /\ announced = pre[p].announced

C5_Witness ==
    \E p \in Procs : Returned(p, "StoreAd") /\ dsHead # None /\ StoredHeight = 1

\* The names that are the prefix followed by the text of a peer ID.
WellFormedNames == {Name(pid) : pid \in PeerIDs}

\* C6: a call whose name lacks the prefix, or whose remainder is no peer ID,
\* changes nothing (head, height, link store, served root, announces) and
\* returns an error.
C6_InvalidNameNoMutation ==
    \A p \in Procs :
        (frame[p].pc # "idle" /\ frame[p].origName \notin WellFormedNames) =>
            /\ dsHead = pre[p].head
            /\ dsHeight = pre[p].height
            /\ dsLs = pre[p].ls
            /\ pubRoot = pre[p].root
            /\ announced = pre[p].announced
            /\ frame[p].pc \in {"getHeadAdCid", "previousHeight", "NewRecord", "done"}
            /\ ~Returned(p, "nil")

C6_Witness ==
    \E p \in Procs :
        /\ Returned(p, "peerIDFromName")
        /\ frame[p].origName \in {<<"12D3Owner">>, <<NamespacePrefix, "zz">>}
        /\ dsHead # None
        /\ dsLs # EmptyLs

\* The call of goroutine p has read head and height.
HasReadState(p) ==
    \/ frame[p].pc \in {"NewRecord", "StoreEntries", "StoreAd", "SetRoot",
                        "putHead", "readHeight", "putHeight", "Send"}
    \/ frame[p].pc = "done" /\ frame[p].err \notin {"getHeadAdCid", "previousHeight"}

\* C7: when the announce fails Publish returns the "unsuccessful announce"
\* error with the new advertisement as stored head and the height one above
\* the height before the call; the next Publish links to that advertisement
\* and uses the next sequence number.
C7_AnnounceFailureStaysCommitted ==
    \A p \in Procs :
        /\ Returned(p, "unsuccessful announce") =>
              /\ StoredHead = frame[p].newHead
              /\ StoredHeight = previousHeight(pre[p].height) + 1
              /\ frame[p].newHead \notin announced \ pre[p].announced
        /\ (pre[p].last.err = "unsuccessful announce" /\ HasReadState(p)) =>
              /\ frame[p].prevLink = Some(Link(pre[p].last.newHead))
              /\ frame[p].seq = pre[p].last.seq + 1

C7_Witness ==
    \E p \in Procs : pre[p].last.err = "unsuccessful announce" /\ Returned(p, "nil")

\* The call of goroutine p claims the name of a peer other than the host.
ClaimsOtherName(p) ==
    frame[p].origName \in {Name(pid) : pid \in PeerIDs \ {hostID}}

ClaimedID(p) == CHOOSE pid \in PeerIDs : Name(pid) = frame[p].origName

\* What an advertisement's signature covers.
AdBody(ad) ==
    [PreviousID |-> ad.PreviousID, Provider |-> ad.Provider,
     Addresses |-> ad.Addresses, Entries |-> ad.Entries,
     ContextID |-> ad.ContextID, Metadata |-> ad.Metadata]

\* C8: a call that claims another peer's well-formed name is never refused
\* for its name; when it commits, the chain is one longer and the new
\* advertisement names the claimed identity as provider, its entries block
\* holds the hash of the claimed identity alone, and its signature is the
\* host key's.
C8_PublishForeignName ==
    \A p \in Procs :
        ClaimsOtherName(p) =>
            /\ ~Returned(p, "peerIDFromName")
            /\ Committed(p) =>
                  LET ad == Load(frame[p].newHead)
                  IN  /\ StoredHeight = previousHeight(pre[p].height) + 1
                      /\ StoredHead = frame[p].newHead
                      /\ ad.Provider = PeerString(ClaimedID(p))
                      /\ ad.Provider # PeerString(hostID)
                      /\ Load(ad.Entries.Cid).Entries = <<MultihashSum(ClaimedID(p))>>
                      /\ Verify(GetPublic(hostPrivKey), AdBody(ad), ad.Signature)
                      /\ ~Verify(GetPublic("skOwner"), AdBody(ad), ad.Signature)

C8_Witness ==
    \E p \in Procs : ClaimsOtherName(p) /\ Returned(p, "nil") /\ StoredHeight = 2

\* A record is valid for a name when the key it embeds is the key of the
\* name's identity and the signature is that key's over the record's fields.
ValidForName(rec, pid) ==
    /\ IDFromPublicKey(rec.PubKey) = pid
    /\ Verify(rec.PubKey,
              [Value |-> rec.Value, Sequence |-> rec.Sequence,
               Validity |-> rec.Validity, TTL |-> rec.TTL],
              rec.Signature)

\* The target paths a resolver that validates records can return for pid.
Resolvable(pid) ==
    {ad.Metadata.record.Value :
        ad \in {a \in StoredAds : a.Provider = PeerString(pid)
                                  /\ ValidForName(a.Metadata.record, pid)}}

\* C9: the record in an advertisement that claims another peer's name
\* embeds the host's public key and is signed by the host's key, so it is
\* not valid for the claimed name and the name resolves to none of the
\* paths published for it.
C9_HijackRecordInvalid ==
    \A pid \in PeerIDs \ {hostID} :
        /\ \A ad \in StoredAds :
              ad.Provider = PeerString(pid) =>
                  /\ ad.Metadata.record.PubKey = GetPublic(hostPrivKey)
                  /\ ad.Metadata.record.Signature.signer = hostPrivKey
                  /\ ~ValidForName(ad.Metadata.record, pid)
        /\ Resolvable(pid) = {}

C9_Witness ==
    /\ \E ad \in StoredAds : ad.Provider = PeerString("idOwner")
    /\ Resolvable(hostID) # {}

\* C10: advertisements for the same claimed name carry the same entries
\* link, the link store holds at most one entries block per name, and
\* storing a block that is already there leaves the link store as it was.
C10_EntriesStoredOnce ==
    /\ \A a1, a2 \in StoredAds : a1.Provider = a2.Provider => a1.Entries = a2.Entries
    /\ \A pid \in PeerIDs :
          Cardinality({k \in DOMAIN dsLs : dsLs[k] = Encode(EntryChunk(pid))}) <= 1
    /\ \A p \in Procs :
          (frame[p].pc = "StoreAd"
             /\ Encode(EntryChunk(frame[p].hackPID)) \in {pre[p].ls[k] : k \in DOMAIN pre[p].ls}) =>
                dsLs = pre[p].ls

C10_Witness ==
    /\ \E a1, a2 \in StoredAds : a1 # a2 /\ a1.Provider = a2.Provider
    /\ Cardinality(StoredChunks) = 1

\* C11: a block stored under an identifier stays there with the same bytes:
\* no step removes a key of the link store or changes the value under it.
C11_LinkStoreImmutable ==
    [][\A k \in DOMAIN dsLs : k \in DOMAIN dsLs' /\ dsLs'[k] = dsLs[k]]_vars

C11_Witness ==
    \E p \in Procs :
        /\ frame[p].pc = "StoreAd"
        /\ LinkBinary(frame[p].entriesLink[1]) \in DOMAIN pre[p].ls
        /\ \E q \in Procs \ {p} : Overlap(p, q) /\ Returned(q, "unsuccessful announce")
        /\ Cardinality(DOMAIN dsLs) >= 2

\* C12: while a call is in progress nobody can read the head already
\* replaced by the call's advertisement with the height still at its
\* pre-call value, nor the height changed with the head still the pre-call
\* head.
C12_HeadHeightTogether ==
    \A p \in Procs :
        InCall(p) =>
            /\ ~(/\ frame[p].newHead # Undef
                 /\ dsHead = Some(CidBytes(frame[p].newHead))
                 /\ dsHeight = pre[p].height)
            /\ ~(dsHead = pre[p].head /\ dsHeight # pre[p].height)

CommitKeys == {"headAdCid", "height"}

\* C13: the announces change only by a call that has written its
\* advertisement as head and the incremented height, and by that
\* advertisement; a call returns nil only after both writes and its
\* announce; the head and height writes are of the call's own advertisement
\* and of one more than the height it read.
C13_AnnounceAfterCommit ==
    [][/\ announced' # announced =>
            \E p \in Procs :
                /\ frame[p].pc = "Send"
                /\ frame[p].wrote = CommitKeys
                /\ announced' = announced \cup {frame[p].newHead}
       /\ \A p \in Procs :
            /\ (frame[p].pc # "done" /\ frame'[p].pc = "done" /\ frame'[p].err = "nil") =>
                  /\ frame[p].wrote = CommitKeys
                  /\ frame[p].newHead \in announced'
            /\ ("headAdCid" \in frame'[p].wrote \ frame[p].wrote) =>
                  dsHead' = Some(CidBytes(frame[p].newHead))
            /\ ("height" \in frame'[p].wrote \ frame[p].wrote) =>
                  /\ "headAdCid" \in frame[p].wrote
                  /\ dsHeight' = Some(ToUvarint(frame[p].h + 1))
      ]_vars

C13_Witness ==
    \E p, q \in Procs :
        /\ Returned(p, "nil") /\ frame[p].newHead \in announced
        /\ Returned(q, "putHeight") /\ frame[q].newHead \notin announced

\* The sequence number of the record inside the advertisement stored
\* under c.
SequenceOf(c) == Load(c).Metadata.record.Sequence

\* C14: every call builds its record with the height it read plus one, the
\* sequence numbers grow strictly along the chain from root to head, and no
\* two stored advertisements for the same name carry the same sequence
\* number, those of calls that returned an error included.
C14_SequenceNeverReused ==
    /\ \A p \in Procs : HasReadState(p) => frame[p].seq = frame[p].prevHeight + 1
    /\ LET w == Walk(StoredHead)
       IN  \A i \in 1..(Len(w) - 1) : SequenceOf(w[i]) > SequenceOf(w[i + 1])
    /\ \A a1, a2 \in StoredAds :
          (a1 # a2 /\ a1.Provider = a2.Provider) =>
              a1.Metadata.record.Sequence # a2.Metadata.record.Sequence

\* The call of goroutine p has stored its advertisement.
HasStoredAd(p) ==
    \/ frame[p].pc \in {"SetRoot", "putHead", "readHeight", "putHeight", "Send"}
    \/ frame[p].pc = "done" /\ frame[p].newHead # Undef

\* C15: with no head and no height stored a call reads head cid.Undef and
\* height 0 and its advertisement has no PreviousID and sequence 1; with a
\* head stored the call reads that head; the advertisement a call stores
\* has the head it read as PreviousID.
C15_AbsentStateIsEmptyChain ==
    \A p \in Procs :
        /\ (HasReadState(p) /\ pre[p].head = None /\ pre[p].height = None) =>
              /\ frame[p].head = Undef
              /\ frame[p].prevLink = None
              /\ frame[p].prevHeight = 0
              /\ frame[p].seq = 1
        /\ (HasReadState(p) /\ pre[p].head # None) =>
              /\ pre[p].head = Some(CidBytes(frame[p].head))
              /\ frame[p].prevLink = Some(Link(frame[p].head))
        /\ HasStoredAd(p) =>
              /\ Load(frame[p].newHead).PreviousID = frame[p].prevLink
              /\ (Load(frame[p].newHead).PreviousID = None) <=> (pre[p].head = None)
              /\ SequenceOf(frame[p].newHead) = frame[p].seq

C15_Witness ==
    \E p \in Procs :
        /\ Returned(p, "nil")
        /\ pre[p].last.err = "nil"
        /\ Load(pre[p].last.newHead).PreviousID = None
        /\ SequenceOf(pre[p].last.newHead) = 1
        /\ Load(frame[p].newHead).PreviousID = Some(Link(pre[p].last.newHead))

\* The errors Publish returns after the entries block is stored and before
\* the advertisement is.
AdStepErrors == {"ipnsMetadata", "ad.Sign", "StoreAd"}

\* The keys of a link store that hold entry chunks.
ChunkKeys(ls) == {k \in DOMAIN ls : "Provider" \notin DOMAIN ls[k][2]}

\* C16: when the advertisement is not stored after the entries block was,
\* Publish returns an error with head and height unchanged and the link
\* store as before the call plus the entries block; a retry for the same
\* name gets the same entries link and adds no entries block.
C16_OrphanEntriesReused ==
    \A p \in Procs :
        /\ (\E e \in AdStepErrors : Returned(p, e)) =>
              LET k == LinkBinary(frame[p].entriesLink[1])
              IN  /\ dsHead = pre[p].head
                  /\ dsHeight = pre[p].height
                  /\ DOMAIN dsLs = DOMAIN pre[p].ls \cup {k}
                  /\ \A j \in DOMAIN pre[p].ls : dsLs[j] = pre[p].ls[j]
                  /\ dsLs[k] = Encode(EntryChunk(frame[p].hackPID))
        /\ (/\ pre[p].last.err \in AdStepErrors
            /\ frame[p].origName = pre[p].last.origName
            /\ frame[p].entriesLink # None) =>
              /\ frame[p].entriesLink = pre[p].last.entriesLink
              /\ ChunkKeys(dsLs) = ChunkKeys(pre[p].ls)

C16_Witness ==
    \E p \in Procs :
        /\ pre[p].last.err = "StoreAd"
        /\ frame[p].origName = pre[p].last.origName
        /\ Returned(p, "nil")

\* C17: whenever no call is in progress the root the publisher serves is
\* the stored head.
C17_ServedRootIsHead ==
    Quiescent => pubRoot = IF dsHead = None THEN None ELSE Some(StoredHead)

\* C18: no step of any interleaving of Publish calls replaces the stored
\* height by a smaller one.
C18_HeightNeverDecreases ==
    [][StoredHeight' >= StoredHeight]_vars

====
